---- MODULE Spec2Model ----
(***************************************************************************)
(* Time Bank API (backend/main.py): a FastAPI service over one SQLite      *)
(* file.  Every handler opens its own connection (get_db).  The sqlite3    *)
(* module opens a transaction implicitly before the first UPDATE / INSERT  *)
(* / DELETE of a connection and SQLite admits one writer at a time; a      *)
(* SELECT runs outside any transaction and reads the committed database.   *)
(* An uncommitted transaction is private to its connection and is rolled   *)
(* back when the connection goes away without commit().                    *)
(***************************************************************************)
EXTENDS Integers, Sequences, FiniteSets, TLC

VARIABLES
    db,         \* the committed database: what every other connection reads
    txn,        \* txn[r]: <<>> or <<d>>, d the working copy of r's open write transaction
    pc,         \* pc[r]: position of request r inside create_transaction
    tx,         \* tx[r]: the Transaction body of request r (tx.id is set at the end)
    provider,   \* provider[r]: <<>> (None) or <<row>> fetched at line 144
    recipient,  \* recipient[r]: <<>> (None) or <<row>> fetched at line 145
    lastrowid,  \* lastrowid[r]: cur.lastrowid of r's cursor
    resp        \* resp[r]: HTTP status answered to r (0: none yet)

vars == <<db, txn, pc, tx, provider, recipient, lastrowid, resp>>

\* ------------------------------------------------------------------ bounds
MaxUsers == 2
MaxReqs == 2
MaxMinutes == 1
MaxBalance == 1
MaxServices == 1

Reqs == 1..MaxReqs
UserIds == 1..MaxUsers
Minutes == (0 - MaxMinutes)..MaxMinutes
Balances == 0..MaxBalance
\* balances of the accounts in place when only transfers run
StartBalances == 0..(MaxBalance + 1)
Names == {"ann"}
Descriptions == {"None"}

\* ------------------------------------------------------------------ models
\* class User: a row of table users (the id is the key of db.users)
User(name, minutes_balance) == [name |-> name, minutes_balance |-> minutes_balance]

\* class Service: a row of table services
Service(id, title, provider_user_id, duration_minutes) ==
    [id |-> id, title |-> title, description |-> "None",
     provider_user_id |-> provider_user_id, duration_minutes |-> duration_minutes]

\* class Transaction: id None is written 0
Transaction(id, provider_user_id, recipient_user_id, minutes, description) ==
    [id |-> id, provider_user_id |-> provider_user_id,
     recipient_user_id |-> recipient_user_id, minutes |-> minutes,
     description |-> description]

\* duration_minutes: int = 60
DefaultDuration == 60

NoTx == Transaction(0, 0, 0, 0, "None")

\* init_db: three empty tables; seq is sqlite_sequence (AUTOINCREMENT)
init_db ==
    [users |-> [u \in {} |-> User("", 0)], services |-> <<>>, transactions |-> <<>>,
     seq |-> [users |-> 0, services |-> 0, transactions |-> 0]]

\* ------------------------------------------------------------------ SQL
\* SELECT * FROM users WHERE id=? ... fetchone(): the row or None
select_user(d, id) ==
    IF id \in DOMAIN d.users THEN <<[id |-> id] @@ d.users[id]>> ELSE <<>>

\* INSERT INTO users (name, minutes_balance): the key is one past every key used
insert_user(d, name, minutes_balance) ==
    LET id == d.seq.users + 1
    IN [d EXCEPT !.users = (id :> User(name, minutes_balance)) @@ @,
                 !.seq.users = id]

\* UPDATE users SET name=?, minutes_balance=? WHERE id=?: no row, no change
update_user_row(d, id, name, minutes_balance) ==
    IF id \in DOMAIN d.users
    THEN [d EXCEPT !.users[id] = User(name, minutes_balance)]
    ELSE d

\* variant: the account's records go with it (ON DELETE CASCADE)
delete_user_cascade(d, id) ==
    [d EXCEPT !.users = [u \in (DOMAIN @) \ {id} |-> @[u]],
              !.transactions = SelectSeq(@, LAMBDA t : t.provider_user_id # id /\ t.recipient_user_id # id)]

\* DELETE FROM users WHERE id=?
delete_user_row(d, id) ==
    [d EXCEPT !.users = [u \in (DOMAIN @) \ {id} |-> @[u]]]

\* INSERT INTO services
insert_service(d, title, provider_user_id, duration_minutes) ==
    LET id == d.seq.services + 1
    IN [d EXCEPT !.services = Append(@, Service(id, title, provider_user_id, duration_minutes)),
                 !.seq.services = id]

\* variant: the provider is debited instead of credited
credit_provider_negated(d, t) ==
    IF t.provider_user_id \in DOMAIN d.users
    THEN [d EXCEPT !.users[t.provider_user_id].minutes_balance = @ - t.minutes]
    ELSE d

\* UPDATE users SET minutes_balance = minutes_balance + ? WHERE id=?
credit_provider(d, t) ==
    IF t.provider_user_id \in DOMAIN d.users
    THEN [d EXCEPT !.users[t.provider_user_id].minutes_balance = @ + t.minutes]
    ELSE d

\* variant: the WHERE clause is missing, every account is debited
debit_recipient_all(d, t) ==
    [d EXCEPT !.users = [u \in DOMAIN @ |-> [@[u] EXCEPT !.minutes_balance = @ - t.minutes]]]

\* variant: the debit is missing
debit_recipient_skipped(d, t) == d

\* UPDATE users SET minutes_balance = minutes_balance - ? WHERE id=?
debit_recipient(d, t) ==
    IF t.recipient_user_id \in DOMAIN d.users
    THEN [d EXCEPT !.users[t.recipient_user_id].minutes_balance = @ - t.minutes]
    ELSE d

\* id INTEGER PRIMARY KEY AUTOINCREMENT of table transactions
next_transaction_id(d) == d.seq.transactions + 1

\* variant: the key does not advance (no AUTOINCREMENT bookkeeping)
insert_transaction_same_id(d, t) ==
    [d EXCEPT !.transactions = Append(@, [t EXCEPT !.id = next_transaction_id(d)])]

\* variant: a transfer already in the log is not recorded again
insert_transaction_dedup(d, t) ==
    IF \E i \in 1..Len(d.transactions) :
          <<d.transactions[i].provider_user_id, d.transactions[i].recipient_user_id,
            d.transactions[i].minutes, d.transactions[i].description>>
          = <<t.provider_user_id, t.recipient_user_id, t.minutes, t.description>>
    THEN d
    ELSE [d EXCEPT !.transactions = Append(@, [t EXCEPT !.id = next_transaction_id(d)]),
                   !.seq.transactions = next_transaction_id(d)]

\* INSERT INTO transactions (provider_user_id, recipient_user_id, minutes, description)
insert_transaction(d, t) ==
    LET id == next_transaction_id(d)
    IN [d EXCEPT !.transactions = Append(@, [t EXCEPT !.id = id]),
                 !.seq.transactions = id]

\* the three statements of lines 153-157 in order
transfer(d, t) == insert_transaction(debit_recipient(credit_provider(d, t), t), t)

\* ------------------------------------------------------------------ connections
\* what a SELECT of any connection without a write transaction reads
get_db == db

\* GET /users
list_users == get_db.users

\* GET /users/{user_id}: the row, or 404
get_user(user_id) == select_user(get_db, user_id)

\* GET /services
list_services == get_db.services

\* SQLite's write lock: held from a connection's first write to its commit or rollback
Writers == {r \in Reqs : txn[r] # <<>>}
NoWriter == Writers = {}

InFlight == {r \in Reqs : pc[r] \notin {"idle", "done"}}

reqvars == <<txn, pc, tx, provider, recipient, lastrowid, resp>>

\* ------------------------------------------------------------------ CRUD
\* POST /users: INSERT and commit on a fresh connection
create_user(name, minutes_balance) ==
    /\ NoWriter
    /\ db.seq.users < MaxUsers
    /\ db' = insert_user(db, name, minutes_balance)
    /\ UNCHANGED reqvars

\* PUT /users/{user_id}
update_user(user_id, name, minutes_balance) ==
    /\ NoWriter
    /\ db' = update_user_row(db, user_id, name, minutes_balance)
    /\ UNCHANGED reqvars

\* DELETE /users/{user_id}
delete_user(user_id) ==
    /\ NoWriter
    /\ db' = delete_user_row(db, user_id)
    /\ UNCHANGED reqvars

\* POST /services
create_service(title, provider_user_id, duration_minutes) ==
    /\ NoWriter
    /\ db.seq.services < MaxServices
    /\ db' = insert_service(db, title, provider_user_id, duration_minutes)
    /\ UNCHANGED reqvars

\* ------------------------------------------------------------------ POST /transactions
\* lines 140-142: the request body arrives, a connection and a cursor are made
begin(r, t) ==
    /\ pc[r] = "idle"
    /\ tx' = [tx EXCEPT ![r] = t]
    /\ pc' = [pc EXCEPT ![r] = "select_provider"]
    /\ UNCHANGED <<db, txn, provider, recipient, lastrowid, resp>>

\* line 144
select_provider(r) ==
    /\ pc[r] = "select_provider"
    /\ provider' = [provider EXCEPT ![r] = select_user(get_db, tx[r].provider_user_id)]
    /\ pc' = [pc EXCEPT ![r] = "select_recipient"]
    /\ UNCHANGED <<db, txn, tx, recipient, lastrowid, resp>>

\* variant: the funds check is missing
check_no_funds(p, q, minutes) ==
    IF p = <<>> \/ q = <<>> THEN 404 ELSE 0

\* variant: only the recipient is looked at
check_recipient_only(p, q, minutes) ==
    IF q = <<>> THEN 404
    ELSE IF q[1].minutes_balance < minutes THEN 400
    ELSE 0

\* variant: minutes must be positive
check_positive(p, q, minutes) ==
    IF p = <<>> \/ q = <<>> THEN 404
    ELSE IF minutes <= 0 \/ q[1].minutes_balance < minutes THEN 400
    ELSE 0

\* variant: a transfer to oneself is refused
check_distinct(p, q, minutes) ==
    IF p = <<>> \/ q = <<>> THEN 404
    ELSE IF p[1].id = q[1].id \/ q[1].minutes_balance < minutes THEN 400
    ELSE 0

\* variant: the funds check lets the recipient overdraw by one minute
check_overdraft(p, q, minutes) ==
    IF p = <<>> \/ q = <<>> THEN 404
    ELSE IF q[1].minutes_balance + 1 < minutes THEN 400
    ELSE 0

\* lines 146-150 on the two fetched rows: the status raised, 0 when the checks pass
check(p, q, minutes) ==
    IF p = <<>> \/ q = <<>> THEN 404
    ELSE IF q[1].minutes_balance < minutes THEN 400
    ELSE 0

\* lines 145-150: the second SELECT, then the two checks
select_recipient(r) ==
    /\ pc[r] = "select_recipient"
    /\ LET q == select_user(get_db, tx[r].recipient_user_id)
           status == check(provider[r], q, tx[r].minutes)
       IN /\ recipient' = [recipient EXCEPT ![r] = q]
          /\ resp' = [resp EXCEPT ![r] = status]
          /\ pc' = [pc EXCEPT ![r] = IF status = 0 THEN "update_provider" ELSE "done"]
    /\ UNCHANGED <<db, txn, tx, provider, lastrowid>>

\* variant: the connection is in autocommit mode, the first write is public at once
update_provider_autocommit(r) ==
    /\ pc[r] = "update_provider"
    /\ NoWriter
    /\ db' = credit_provider(db, tx[r])
    /\ txn' = [txn EXCEPT ![r] = <<credit_provider(db, tx[r])>>]
    /\ pc' = [pc EXCEPT ![r] = "update_recipient"]
    /\ UNCHANGED <<tx, provider, recipient, lastrowid, resp>>

\* variant: the new balance is computed from the row fetched at line 144
update_provider_stale(r) ==
    /\ pc[r] = "update_provider"
    /\ NoWriter
    /\ txn' = [txn EXCEPT ![r] =
                  <<[db EXCEPT !.users[tx[r].provider_user_id].minutes_balance =
                                   provider[r][1].minutes_balance + tx[r].minutes]>>]
    /\ pc' = [pc EXCEPT ![r] = "update_recipient"]
    /\ UNCHANGED <<db, tx, provider, recipient, lastrowid, resp>>

\* line 153: the first write opens the transaction and takes the write lock
update_provider(r) ==
    /\ pc[r] = "update_provider"
    /\ NoWriter
    /\ txn' = [txn EXCEPT ![r] = <<credit_provider(db, tx[r])>>]
    /\ pc' = [pc EXCEPT ![r] = "update_recipient"]
    /\ UNCHANGED <<db, tx, provider, recipient, lastrowid, resp>>

\* line 154
update_recipient(r) ==
    /\ pc[r] = "update_recipient"
    /\ txn' = [txn EXCEPT ![r] = <<debit_recipient(txn[r][1], tx[r])>>]
    /\ pc' = [pc EXCEPT ![r] = "insert"]
    /\ UNCHANGED <<db, tx, provider, recipient, lastrowid, resp>>

\* lines 156-157
insert(r) ==
    /\ pc[r] = "insert"
    /\ txn' = [txn EXCEPT ![r] = <<insert_transaction(txn[r][1], tx[r])>>]
    /\ lastrowid' = [lastrowid EXCEPT ![r] = next_transaction_id(txn[r][1])]
    /\ pc' = [pc EXCEPT ![r] = "commit"]
    /\ UNCHANGED <<db, tx, provider, recipient, resp>>

\* lines 159-162: commit, tx.id = cur.lastrowid, close, return tx
commit(r) ==
    /\ pc[r] = "commit"
    /\ db' = txn[r][1]
    /\ txn' = [txn EXCEPT ![r] = <<>>]
    /\ tx' = [tx EXCEPT ![r].id = lastrowid[r]]
    /\ resp' = [resp EXCEPT ![r] = 200]
    /\ pc' = [pc EXCEPT ![r] = "done"]
    /\ UNCHANGED <<provider, recipient, lastrowid>>

\* what is left of r's open transaction once its connection is dropped uncommitted
rollback(r) == <<>>

\* variant: the failing request's connection is closed with a commit
storage_failure_commits(r) ==
    /\ pc[r] \in {"update_provider", "update_recipient", "insert", "commit"}
    /\ db' = IF txn[r] = <<>> THEN db ELSE txn[r][1]
    /\ txn' = [txn EXCEPT ![r] = <<>>]
    /\ resp' = [resp EXCEPT ![r] = 500]
    /\ pc' = [pc EXCEPT ![r] = "done"]
    /\ UNCHANGED <<tx, provider, recipient, lastrowid>>

\* lines 153-159: a sqlite3 call raises (database is locked, disk I/O error, ...);
\* nothing catches it, the connection is dropped without commit
storage_failure(r) ==
    /\ pc[r] \in {"update_provider", "update_recipient", "insert", "commit"}
    /\ txn' = [txn EXCEPT ![r] = rollback(r)]
    /\ resp' = [resp EXCEPT ![r] = 500]
    /\ pc' = [pc EXCEPT ![r] = "done"]
    /\ UNCHANGED <<db, tx, provider, recipient, lastrowid>>

\* ------------------------------------------------------------------ specifications
RequestInit ==
    /\ txn = [r \in Reqs |-> <<>>]
    /\ pc = [r \in Reqs |-> "idle"]
    /\ tx = [r \in Reqs |-> NoTx]
    /\ provider = [r \in Reqs |-> <<>>]
    /\ recipient = [r \in Reqs |-> <<>>]
    /\ lastrowid = [r \in Reqs |-> 0]
    /\ resp = [r \in Reqs |-> 0]

Init ==
    /\ db = init_db
    /\ RequestInit

Bodies ==
    {Transaction(0, p, q, m, d) : p \in UserIds, q \in UserIds, m \in Minutes, d \in Descriptions}

Crud ==
    \/ \E n \in Names, b \in Balances : create_user(n, b)
    \/ \E u \in UserIds, n \in Names, b \in Balances : update_user(u, n, b)
    \/ \E u \in UserIds : delete_user(u)
    \/ \E u \in UserIds : create_service("t", u, DefaultDuration)

Step(r) ==
    \/ select_provider(r)
    \/ select_recipient(r)
    \/ update_provider(r)
    \/ update_recipient(r)
    \/ insert(r)
    \/ commit(r)
    \/ storage_failure(r)

\* requests overlap freely (FastAPI runs def handlers on a thread pool)
Next ==
    \/ Crud
    \/ \E r \in Reqs, t \in Bodies : begin(r, t)
    \/ \E r \in Reqs : Step(r)

Spec == Init /\ [][Next]_vars

\* one request at a time: a request starts only when none is in flight
SeqNext ==
    \/ InFlight = {} /\ Crud
    \/ InFlight = {} /\ \E r \in Reqs, t \in Bodies : begin(r, t)
    \/ \E r \in Reqs : Step(r)

SeqSpec == Init /\ [][SeqNext]_vars

\* the accounts are in place and only transfers run, overlapping freely
TransferInit ==
    /\ \E b \in [UserIds -> StartBalances] :
          db = [init_db EXCEPT !.users = [u \in UserIds |-> User("ann", b[u])],
                               !.seq.users = MaxUsers]
    /\ RequestInit

TransferNext ==
    \/ \E r \in Reqs, t \in Bodies : begin(r, t)
    \/ \E r \in Reqs : Step(r)

TransferSpec == TransferInit /\ [][TransferNext]_vars

\* the accounts are in place and only transfers run, one at a time
SeqTransferNext ==
    \/ InFlight = {} /\ \E r \in Reqs, t \in Bodies : begin(r, t)
    \/ \E r \in Reqs : Step(r)

SeqTransferSpec == TransferInit /\ [][SeqTransferNext]_vars

\* twice as many accounts are in place, so that two transfers can each have a
\* provider and a recipient of their own; only transfers run, overlapping freely
PairIds == 1..(2 * MaxUsers)

PairBodies ==
    {Transaction(0, p, q, m, d) : p \in PairIds, q \in PairIds, m \in Minutes, d \in Descriptions}

PairsInit ==
    /\ \E b \in [PairIds -> Balances] :
          db = [init_db EXCEPT !.users = [u \in PairIds |-> User("ann", b[u])],
                               !.seq.users = 2 * MaxUsers]
    /\ RequestInit

PairsNext ==
    \/ \E r \in Reqs, t \in PairBodies : begin(r, t)
    \/ \E r \in Reqs : Step(r)

PairsSpec == PairsInit /\ [][PairsNext]_vars

\* ------------------------------------------------------------------ properties
Exists(d, id) == id \in DOMAIN d.users
Balance(d, id) == d.users[id].minutes_balance
Moves(r) == pc'[r] # pc[r]
Fields(t) == <<t.provider_user_id, t.recipient_user_id, t.minutes, t.description>>

\* d2's log is d1's log followed by exactly one record, which carries the fields of t
OneNewRecord(d1, d2, t) ==
    LET n == Len(d1.transactions)
    IN /\ Len(d2.transactions) = n + 1
       /\ SubSeq(d2.transactions, 1, n) = d1.transactions
       /\ Fields(d2.transactions[n + 1]) = Fields(t)

\* One step of request r, run with no other request overlapping, on accounts A
\* (provider) and B (recipient) that exist with balances a and b, m <= b: the checks
\* pass, no step but the successful last one changes the database, and that one
\* leaves A at a+m, B at b-m and the log one record (A, B, m) longer.
C1_Step(r, distinctOnly) ==
    LET A == tx[r].provider_user_id
        B == tx[r].recipient_user_id
        m == tx[r].minutes
    IN (/\ Moves(r)
        /\ Exists(db, A) /\ Exists(db, B)
        /\ m <= Balance(db, B)
        /\ (distinctOnly => A # B))
       => /\ pc[r] = "select_recipient" => pc'[r] = "update_provider"
          /\ resp'[r] \notin {400, 404}
          /\ resp'[r] # 200 => db' = db
          /\ resp'[r] = 200 =>
                /\ Exists(db', A) /\ Exists(db', B)
                /\ Balance(db', A) = Balance(db, A) + m
                /\ Balance(db', B) = Balance(db, B) - m
                /\ OneNewRecord(db, db', tx[r])

\* C1 as stated: for ALL existing accounts A and B (A = B included) with balances a
\* and b and every m <= b, after create_transaction(A, B, m) completes A's balance
\* is a+m, B's is b-m and the log holds exactly one new record (A, B, m).
C1_AnyAccounts == [][\A r \in Reqs : C1_Step(r, FALSE)]_vars

\* C1 amended: the same for DISTINCT existing accounts A and B, the request running
\* without overlapping another and without a storage failure.
C1_DistinctAccounts == [][\A r \in Reqs : C1_Step(r, TRUE)]_vars

\* a transfer between two distinct accounts has completed and moved one minute
C1_Witness ==
    \E r \in Reqs :
        /\ resp[r] = 200
        /\ tx[r].provider_user_id # tx[r].recipient_user_id
        /\ tx[r].minutes = 1
        /\ Len(db.transactions) = 1
        /\ Exists(db, tx[r].provider_user_id)
        /\ Balance(db, tx[r].provider_user_id) = provider[r][1].minutes_balance + 1

\* C2: when both accounts exist and the requested minutes exceed the recipient's
\* current balance, create_transaction answers 400 and changes nothing: the
\* database (every balance, the log) is as before and no transaction stays open.
C2_InsufficientFunds ==
    [][\A r \in Reqs :
          LET A == tx[r].provider_user_id
              B == tx[r].recipient_user_id
          IN (/\ Moves(r)
              /\ pc[r] = "select_recipient"
              /\ Exists(db, A) /\ Exists(db, B)
              /\ tx[r].minutes > Balance(db, B))
             => /\ resp'[r] = 400
                /\ pc'[r] = "done"
                /\ db' = db
                /\ txn' = txn /\ txn[r] = <<>>]_vars

\* a request was refused for insufficient funds with both accounts in place
C2_Witness ==
    \E r \in Reqs :
        /\ resp[r] = 400
        /\ pc[r] = "done"
        /\ provider[r] # <<>> /\ recipient[r] # <<>>
        /\ recipient[r][1].minutes_balance < tx[r].minutes

\* C3: when the provider id or the recipient id (or both) names no account,
\* create_transaction answers 404 whatever the minutes, and changes nothing.
C3_NotFound ==
    [][\A r \in Reqs :
          LET A == tx[r].provider_user_id
              B == tx[r].recipient_user_id
          IN (/\ Moves(r)
              /\ pc[r] = "select_recipient"
              /\ ~Exists(db, A) \/ ~Exists(db, B))
             => /\ resp'[r] = 404
                /\ pc'[r] = "done"
                /\ db' = db
                /\ txn' = txn /\ txn[r] = <<>>]_vars

\* a request was refused with 404 although its recipient exists and could pay
C3_Witness ==
    \E r \in Reqs :
        /\ resp[r] = 404
        /\ pc[r] = "done"
        /\ provider[r] = <<>>
        /\ recipient[r] # <<>>
        /\ recipient[r][1].minutes_balance >= tx[r].minutes

\* C4: the two balance updates and the log append of a transfer become visible
\* together or not at all: whatever step a create_transaction request takes, the
\* database the other requests read (get_user, list_users, the SELECTs of another
\* transfer) either stays as it is or changes by all three statements at once.
C4_AtomicVisibility ==
    [][\A r \in Reqs :
          Moves(r) =>
             \/ get_db' = get_db
             \/ /\ pc[r] = "commit"
                /\ get_db' = transfer(get_db, tx[r])]_vars

\* a transfer has credited its provider and not yet debited its recipient, while
\* another request is about to read the accounts: the credit is not in what it reads
C4_Witness ==
    \E r, o \in Reqs :
        /\ pc[r] = "update_recipient"
        /\ tx[r].minutes # 0
        /\ tx[r].provider_user_id # tx[r].recipient_user_id
        /\ Exists(db, tx[r].provider_user_id)
        /\ Balance(txn[r][1], tx[r].provider_user_id) # Balance(db, tx[r].provider_user_id)
        /\ pc[o] = "select_provider"
        /\ get_user(tx[r].provider_user_id)[1].minutes_balance
              = Balance(db, tx[r].provider_user_id)

\* C5: when the accounts start with non-negative balances and every transfer asks
\* for non-negative minutes, then for every interleaving (a) a transfer that has
\* passed the funds check and reached its writes has minutes <= the recipient's
\* balance in the database it writes to (its check was not made on a balance that
\* another transfer has lowered since), and (b) no balance is ever below zero.
C5_NoStaleFundsCheck ==
    (\A r \in Reqs : tx[r].minutes >= 0)
    => /\ \A r \in Reqs :
             (pc[r] \in {"update_recipient", "insert", "commit"}
                /\ Exists(db, tx[r].recipient_user_id))
             => tx[r].minutes <= Balance(db, tx[r].recipient_user_id)
       /\ \A u \in DOMAIN db.users : Balance(db, u) >= 0

\* C6: a storage failure after the checks (before or after the first UPDATE, the
\* second UPDATE or the INSERT, before commit) leaves the database every later
\* request reads as it was, and nothing of the request stays pending.
C6_FailureRollsBack ==
    [][\A r \in Reqs :
          (resp[r] # 500 /\ resp'[r] = 500)
          => /\ get_db' = get_db
             /\ txn'[r] = <<>>
             /\ Writers' = Writers \ {r}
             /\ pc'[r] = "done"]_vars

\* a request failed after its INSERT ran, and neither its record nor its balance
\* changes are in the database
C6_Witness ==
    \E r \in Reqs :
        /\ resp[r] = 500
        /\ lastrowid[r] = 1
        /\ tx[r].minutes # 0
        /\ tx[r].provider_user_id # tx[r].recipient_user_id
        /\ db.transactions = <<>>
        /\ provider[r] = select_user(db, tx[r].provider_user_id)
        /\ recipient[r] = select_user(db, tx[r].recipient_user_id)

\* Two requests r1, r2 with identical arguments that both succeeded, r1 first, and
\* no other request: the log is their two records, equal in every field but the
\* id, and the provider ends at a+2m, the recipient at b-2m (a, b the balances
\* the first request found).
C7_Twice(distinctOnly) ==
    \A r1, r2 \in Reqs :
        LET A == tx[r1].provider_user_id
            B == tx[r1].recipient_user_id
            m == tx[r1].minutes
        IN (/\ r1 # r2
            /\ resp[r1] = 200 /\ resp[r2] = 200
            /\ Fields(tx[r1]) = Fields(tx[r2])
            /\ tx[r1].id < tx[r2].id
            /\ \A o \in Reqs \ {r1, r2} : pc[o] = "idle"
            /\ (distinctOnly => A # B))
           => /\ db.transactions = <<tx[r1], tx[r2]>>
              /\ db.transactions[1].id # db.transactions[2].id
              /\ Balance(db, A) = provider[r1][1].minutes_balance + 2 * m
              /\ Balance(db, B) = recipient[r1][1].minutes_balance - 2 * m

\* C7 as stated: two successful calls with identical arguments, whatever the two
\* accounts (provider = recipient included), leave two distinct records and the
\* provider at a+2m, the recipient at b-2m.
C7_TwiceAnyAccounts == C7_Twice(FALSE)

\* C7 amended: the same for two calls naming DISTINCT accounts.
C7_TwiceDistinctAccounts == C7_Twice(TRUE)

\* the same positive transfer between two distinct accounts succeeded twice
C7_Witness ==
    \E r1, r2 \in Reqs :
        /\ r1 # r2
        /\ resp[r1] = 200 /\ resp[r2] = 200
        /\ Fields(tx[r1]) = Fields(tx[r2])
        /\ tx[r1].provider_user_id # tx[r1].recipient_user_id
        /\ tx[r1].minutes = 1
        /\ Len(db.transactions) = 2

\* C8: the log is append-only under every operation (create, update and delete
\* user, create service, every step of a transfer): each step leaves the records
\* already in the log in place and unchanged, so the earlier log is a prefix of
\* the later one; deleting an account leaves the records that name it.
C8_LogAppendOnly ==
    [][/\ Len(db'.transactions) >= Len(db.transactions)
       /\ SubSeq(db'.transactions, 1, Len(db.transactions)) = db.transactions]_vars

\* the log holds a record whose provider account has been deleted since
C8_Witness ==
    /\ Len(db.transactions) >= 1
    /\ ~Exists(db, db.transactions[1].provider_user_id)
    /\ \E r \in Reqs : resp[r] = 200 /\ tx[r] = db.transactions[1]

\* C9: a request answered 200 returns its own stored row: the log holds a row
\* equal to the returned record, id included; the ids in the log are strictly
\* increasing (so no id was used by an earlier record) and two successful
\* requests never return the same id, however the requests overlap.
C9_ReturnedIdentity ==
    /\ \A r \in Reqs :
          resp[r] = 200 =>
             /\ tx[r].id = lastrowid[r]
             /\ \E i \in 1..Len(db.transactions) : db.transactions[i] = tx[r]
    /\ \A i, j \in 1..Len(db.transactions) :
          i < j => db.transactions[i].id < db.transactions[j].id
    /\ \A r1, r2 \in Reqs :
          (r1 # r2 /\ resp[r1] = 200 /\ resp[r2] = 200) => tx[r1].id # tx[r2].id

\* two requests with the same arguments succeeded, the one that began writing
\* later holding the later id
C9_Witness ==
    /\ resp[1] = 200 /\ resp[2] = 200
    /\ Fields(tx[1]) = Fields(tx[2])
    /\ tx[1].id = 2 /\ tx[2].id = 1
    /\ db.transactions = <<tx[2], tx[1]>>

C11_SelfTransfer ==
    [][\A r \in Reqs :
          LET A == tx[r].provider_user_id
              m == tx[r].minutes
          IN (/\ Moves(r)
              /\ tx[r].recipient_user_id = A
              /\ Exists(db, A)
              /\ Balance(db, A) >= m)
             => /\ pc[r] = "select_recipient" => pc'[r] = "update_provider"
                /\ resp'[r] \notin {400, 404}
                /\ resp'[r] # 200 => db' = db
                /\ resp'[r] = 200 =>
                      /\ db'.users = db.users
                      /\ OneNewRecord(db, db', tx[r])
                      /\ LET rec == db'.transactions[Len(db'.transactions)]
                         IN rec.provider_user_id = A /\ rec.recipient_user_id = A]_vars

\* a transfer of one minute from an account to itself succeeded: the account
\* holds what the request found, and the record is the last of the log
C11_Witness ==
    \E r \in Reqs :
        /\ resp[r] = 200
        /\ tx[r].provider_user_id = tx[r].recipient_user_id
        /\ tx[r].minutes = 1
        /\ Exists(db, tx[r].provider_user_id)
        /\ Balance(db, tx[r].provider_user_id) = provider[r][1].minutes_balance
        /\ db.transactions[Len(db.transactions)] = tx[r]

\* what the records of a log add to account u: the minutes of the records that
\* name u as provider minus the minutes of those that name u as recipient
RECURSIVE Net(_, _)
Net(log, u) ==
    IF log = <<>> THEN 0
    ELSE LET t == log[Len(log)]
         IN Net(SubSeq(log, 1, Len(log) - 1), u)
            + (IF t.provider_user_id = u THEN t.minutes ELSE 0)
            - (IF t.recipient_user_id = u THEN t.minutes ELSE 0)

\* C12: overlapping transfers lose no update.  Under every interleaving each
\* committed transfer has its record in the log, and each account's balance less
\* the credits and debits of the records in the log never changes: the balance
\* is always the initial one plus all credits minus all debits of the transfers
\* committed so far, as if they had run one after the other.
C12_NoLostUpdate ==
    [][/\ \A u \in UserIds :
             Balance(db', u) - Net(db'.transactions, u)
                = Balance(db, u) - Net(db.transactions, u)
       /\ \A r \in Reqs :
             resp'[r] = 200 => \E i \in 1..Len(db'.transactions) : db'.transactions[i] = tx'[r]]_vars

\* two transfers of one minute between the same two accounts both read the same
\* balances (each before the other wrote) and both committed: the provider has
\* two minutes more than either of them read
C12_Witness ==
    /\ resp[1] = 200 /\ resp[2] = 200
    /\ Fields(tx[1]) = Fields(tx[2])
    /\ tx[1].minutes = 1
    /\ tx[1].provider_user_id # tx[1].recipient_user_id
    /\ provider[1] = provider[2]
    /\ recipient[1] = recipient[2]
    /\ Balance(db, tx[1].provider_user_id) = provider[1][1].minutes_balance + 2
    /\ Balance(db, tx[1].recipient_user_id) = recipient[1][1].minutes_balance - 2

\* C13: when a transfer is about to commit its record, the provider id and the
\* recipient id both name accounts that exist in the database it commits, under
\* every interleaving of create_transaction with delete_user (so both balance
\* updates hit a row: none credits or debits nobody).
C13_RecordNamesExistingAccounts ==
    \A r \in Reqs :
        pc[r] = "commit" =>
           /\ Exists(txn[r][1], tx[r].provider_user_id)
           /\ Exists(txn[r][1], tx[r].recipient_user_id)

\* C14: over every sequence of the public operations (create_user, update_user,
\* delete_user, create_service, create_transaction), a step that changes the
\* balance of an account existing before and after it is the commit of a
\* transfer, and the change is that transfer's +minutes (as provider) and
\* -minutes (as recipient).
C14_BalanceOnlyByTransfer ==
    [][\A u \in UserIds :
          (Exists(db, u) /\ Exists(db', u) /\ Balance(db', u) # Balance(db, u))
          => \E r \in Reqs :
                /\ pc[r] = "commit" /\ resp'[r] = 200
                /\ Balance(db', u) - Balance(db, u)
                      = (IF tx[r].provider_user_id = u THEN tx[r].minutes ELSE 0)
                        - (IF tx[r].recipient_user_id = u THEN tx[r].minutes ELSE 0)]_vars

\* the sum of the balances of the accounts ids of database d
RECURSIVE SumBalances(_, _)
SumBalances(d, ids) ==
    IF ids = {} THEN 0
    ELSE LET u == CHOOSE x \in ids : TRUE
         IN Balance(d, u) + SumBalances(d, ids \ {u})

TotalMinutes(d) == SumBalances(d, DOMAIN d.users)

\* C15: transfers conserve minutes.  No step of any create_transaction request,
\* succeeding or failing, whatever its amount and its two accounts (the same
\* account twice included), changes the sum of all balances, the set of accounts,
\* or the balance of an account that is neither its provider nor its recipient:
\* for any number of transfers, one after the other or overlapping, while no
\* account is created, updated or deleted.
C15_Conservation ==
    [][/\ TotalMinutes(db') = TotalMinutes(db)
       /\ DOMAIN db'.users = DOMAIN db.users
       /\ \A r \in Reqs :
             Moves(r) =>
                \A u \in DOMAIN db.users :
                   u \notin {tx'[r].provider_user_id, tx'[r].recipient_user_id}
                   => db'.users[u] = db.users[u]]_vars

\* two transfers succeeded, one moving a minute between two distinct accounts,
\* the other moving minus one minute from an account to itself
C15_Witness ==
    \E r, o \in Reqs :
        /\ resp[r] = 200 /\ resp[o] = 200
        /\ tx[r].minutes = 1 /\ tx[r].provider_user_id # tx[r].recipient_user_id
        /\ tx[o].minutes = 0 - 1 /\ tx[o].provider_user_id = tx[o].recipient_user_id
        /\ Balance(db, tx[r].provider_user_id) = provider[r][1].minutes_balance + 1
        /\ Len(db.transactions) = 2

\* C16: when requests run one at a time on accounts that start with non-negative
\* balances and every create_transaction asks for non-negative minutes, no
\* balance is negative in any reachable state, be it in the committed database
\* or in the working copy of the transfer in progress.
C16_BalanceFloor ==
    (\A r \in Reqs : tx[r].minutes >= 0)
    => /\ \A u \in DOMAIN db.users : Balance(db, u) >= 0
       /\ \A r \in Writers : \A u \in DOMAIN txn[r][1].users : Balance(txn[r][1], u) >= 0

\* a transfer of one minute emptied its recipient, and the next request for a
\* minute from the same recipient was refused
C16_Witness ==
    \E r, o \in Reqs :
        /\ resp[r] = 200 /\ resp[o] = 400
        /\ tx[r].minutes = 1 /\ tx[o].minutes = 1
        /\ tx[r].recipient_user_id = tx[o].recipient_user_id
        /\ tx[r].provider_user_id # tx[r].recipient_user_id
        /\ recipient[r][1].minutes_balance = 1
        /\ Balance(db, tx[r].recipient_user_id) = 0

\* the accounts a request body names
Accounts(t) == {t.provider_user_id, t.recipient_user_id}

\* create_transaction(t) run alone and without storage failure on database d:
\* the status it answers and the database it leaves
AloneStatus(d, t) ==
    LET st == check(select_user(d, t.provider_user_id),
                    select_user(d, t.recipient_user_id), t.minutes)
    IN IF st = 0 THEN 200 ELSE st

AloneDb(d, t) == IF AloneStatus(d, t) = 200 THEN transfer(d, t) ELSE d

\* the other requests under way or finished name none of r's accounts
DisjointFromOthers(r) ==
    \A o \in Reqs \ {r} : pc[o] # "idle" => Accounts(tx[o]) \cap Accounts(tx[r]) = {}

\* C17: transfers on disjoint account pairs are independent.  Under every
\* interleaving, a request whose accounts no other request names finishes with
\* the status, the balances and the one record (or none) that it would produce
\* run alone on the database as it stands when it finishes (a storage failure
\* apart, which changes nothing); and for two requests on disjoint accounts the
\* order does not matter: each has the same status whether or not the other ran
\* first, and both orders leave the same balances and the same records up to
\* order and id.
C17_DisjointIndependent ==
    [][/\ \A r \in Reqs :
             (Moves(r) /\ pc'[r] = "done" /\ DisjointFromOthers(r))
             => \/ resp'[r] = 500 /\ db' = db
                \/ /\ resp'[r] = AloneStatus(db, tx[r])
                   /\ db' = AloneDb(db, tx[r])
       /\ \A r1, r2 \in Reqs :
             (/\ r1 # r2
              /\ pc[r1] # "idle" /\ pc[r2] # "idle"
              /\ Accounts(tx[r1]) \cap Accounts(tx[r2]) = {})
             => LET d12 == AloneDb(AloneDb(db, tx[r1]), tx[r2])
                    d21 == AloneDb(AloneDb(db, tx[r2]), tx[r1])
                IN /\ AloneStatus(AloneDb(db, tx[r2]), tx[r1]) = AloneStatus(db, tx[r1])
                   /\ d12.users = d21.users
                   /\ Len(d12.transactions) = Len(d21.transactions)
                   /\ {Fields(d12.transactions[i]) : i \in 1..Len(d12.transactions)}
                         = {Fields(d21.transactions[i]) : i \in 1..Len(d21.transactions)}]_vars

\* two transfers of one minute on two disjoint pairs of distinct accounts both
\* committed, the second request first, each emptying its own recipient
C17_Witness ==
    /\ resp[1] = 200 /\ resp[2] = 200
    /\ tx[1].provider_user_id # tx[1].recipient_user_id
    /\ tx[2].provider_user_id # tx[2].recipient_user_id
    /\ Accounts(tx[1]) \cap Accounts(tx[2]) = {}
    /\ tx[1].minutes = 1 /\ tx[2].minutes = 1
    /\ db.transactions = <<tx[2], tx[1]>>
    /\ Balance(db, tx[1].recipient_user_id) = 0
    /\ Balance(db, tx[2].recipient_user_id) = 0

====
